---- MODULE Spec2Model ----
(***************************************************************************)
(* Model of the Caucus channel of src/caucus/mod.rs: a membership vector   *)
(* `actors` and three guards, with the operations add_actor, remove_actor  *)
(* and broadcast.  Every operation is one atomic step (the methods take    *)
(* &mut self / &self, so no two of them overlap on one Caucus).            *)
(***************************************************************************)
EXTENDS Integers, Sequences, FiniteSets, TLC

\* ---- bounds of the model -------------------------------------------------
NumActors == 2      \* actor identities 1..NumActors
NumMessages == 2    \* message values 1..NumMessages
MaxInit == 2        \* longest membership a Caucus is constructed with
MaxCalls == 2       \* calls made on the Caucus in one behaviour
MaxLimit == 2       \* largest capacity a capacity guard enforces

Actors == 1 .. NumActors
Messages == 1 .. NumMessages

\* ---- Operation (enum) ----------------------------------------------------
Operation == {"Join", "Send", "Receive"}

\* ---- Result<(), AccessDenied> --------------------------------------------
Ok == "Ok"
AccessDenied == "AccessDenied"

\* ---- guards ---------------------------------------------------------------
\* A guard is an embedder-supplied policy object.  Three families of
\* deterministic policies are enumerated: one deciding on the actor (allow
\* everybody, allow nobody, deny exactly one actor), one on the operation
\* tag, one on the current membership of the caucus.
ActorGuards ==
  { [kind |-> "actor", allow |-> S, ops |-> {}, limit |-> 0] :
      S \in {Actors, {}} \cup { Actors \ {a} : a \in Actors } }
OperationGuards == { [kind |-> "operation", allow |-> {}, ops |-> {o}, limit |-> 0] : o \in Operation }
CapacityGuards == { [kind |-> "capacity", allow |-> {}, ops |-> {}, limit |-> n] : n \in 1 .. MaxLimit }
CaucusGuard == ActorGuards \cup OperationGuards \cup CapacityGuards

\* The guards the send and receive slots are constructed with.  No method
\* consults these two slots, so their actor policies are enumerated up to a
\* renaming of the actors: the one actor a policy denies is actor 1.
SlotGuards == { g \in ActorGuards : g.allow \in {Actors, {}, Actors \ {1}} }

\* Guard::attempt(&self, actor, operation, context) -> Result<(), AccessDenied>
Attempt(guard, actor, operation, caucus) ==
  LET approve ==
        CASE guard.kind = "actor" -> actor \in guard.allow
          [] guard.kind = "operation" -> operation \in guard.ops
          [] OTHER -> Len(caucus.actors) < guard.limit
  IN IF approve THEN Ok ELSE AccessDenied

\* ---- Vec and iterator helpers ---------------------------------------------
\* Vec::push
VecPush(v, x) == Append(v, x)

\* Vec::remove(pos), pos is 1-based here; later elements shift left
VecRemove(v, pos) == SubSeq(v, 1, pos - 1) \o SubSeq(v, pos + 1, Len(v))

\* variant: the index of the last match (rposition)
Position_last(v, actor) ==
  IF \E i \in 1 .. Len(v) : v[i] = actor
  THEN CHOOSE i \in 1 .. Len(v) : v[i] = actor /\ \A j \in (i + 1) .. Len(v) : v[j] # actor
  ELSE 0

\* variant: the match is reported one index too low, so that a match on the
\* first element reads as None
Position_off_by_one(v, actor) ==
  IF \E i \in 1 .. Len(v) : v[i] = actor
  THEN (CHOOSE i \in 1 .. Len(v) : v[i] = actor /\ \A j \in 1 .. (i - 1) : v[j] # actor) - 1
  ELSE 0

\* Iterator::position(|m| m == actor): 1-based index of the first match,
\* 0 for None
Position(v, actor) ==
  IF \E i \in 1 .. Len(v) : v[i] = actor
  THEN CHOOSE i \in 1 .. Len(v) : v[i] = actor /\ \A j \in 1 .. (i - 1) : v[j] # actor
  ELSE 0

\* ---- the three methods, as functions of the caucus -----------------------
\* Each returns the Result, the membership after the call, and the guard
\* consultations the call made, in order, as <<slot, operation>> pairs.
JoinAttempt == <<"join_guard", "Join">>

\* variant: the actor is inserted at the front
add_actor_prepend(self, actor) ==
  LET r == Attempt(self.join_guard, actor, "Join", self)
  IN IF r = Ok
     THEN [result |-> Ok, actors |-> <<actor>> \o self.actors, attempts |-> <<JoinAttempt>>]
     ELSE [result |-> r, actors |-> self.actors, attempts |-> <<JoinAttempt>>]

\* variant: the push is made before the guard's answer is looked at
add_actor_push_first(self, actor) ==
  [result |-> Attempt(self.join_guard, actor, "Join", self),
   actors |-> VecPush(self.actors, actor),
   attempts |-> <<JoinAttempt>>]

\* variant: the push is made on the Err arm instead of the Ok arm
add_actor_inverted(self, actor) ==
  LET r == Attempt(self.join_guard, actor, "Join", self)
  IN IF r = Ok
     THEN [result |-> Ok, actors |-> self.actors, attempts |-> <<JoinAttempt>>]
     ELSE [result |-> r, actors |-> VecPush(self.actors, actor), attempts |-> <<JoinAttempt>>]

\* variant: an actor that is already a member is not pushed again
add_actor_dedup(self, actor) ==
  LET r == Attempt(self.join_guard, actor, "Join", self)
  IN IF r = Ok
     THEN [result |-> Ok,
           actors |-> IF Position(self.actors, actor) # 0 THEN self.actors
                      ELSE VecPush(self.actors, actor),
           attempts |-> <<JoinAttempt>>]
     ELSE [result |-> r, actors |-> self.actors, attempts |-> <<JoinAttempt>>]

\* variant: joining also needs the send guard's approval
add_actor_needs_send(self, actor) ==
  LET r == Attempt(self.join_guard, actor, "Join", self)
      t == Attempt(self.send_guard, actor, "Send", self)
  IN IF r = Ok /\ t = Ok
     THEN [result |-> Ok, actors |-> VecPush(self.actors, actor),
           attempts |-> <<JoinAttempt, <<"send_guard", "Send">> >>]
     ELSE [result |-> AccessDenied, actors |-> self.actors,
           attempts |-> <<JoinAttempt, <<"send_guard", "Send">> >>]

\* variant: a denied join is attempted a second time before giving up
add_actor_retry(self, actor) ==
  LET r == Attempt(self.join_guard, actor, "Join", self)
      again == Attempt(self.join_guard, actor, "Join", self)
  IN IF r = Ok
     THEN [result |-> Ok, actors |-> VecPush(self.actors, actor), attempts |-> <<JoinAttempt>>]
     ELSE IF again = Ok
     THEN [result |-> Ok, actors |-> VecPush(self.actors, actor),
           attempts |-> <<JoinAttempt, JoinAttempt>>]
     ELSE [result |-> again, actors |-> self.actors,
           attempts |-> <<JoinAttempt, JoinAttempt>>]

\* variant: the guard is asked after the push, about the membership that
\* already holds the new actor
add_actor_check_after(self, actor) ==
  LET pushed == VecPush(self.actors, actor)
  IN [result |-> Attempt(self.join_guard, actor, "Join", [self EXCEPT !.actors = pushed]),
      actors |-> pushed,
      attempts |-> <<JoinAttempt>>]

add_actor(self, actor) ==
  LET r == Attempt(self.join_guard, actor, "Join", self)
  IN IF r = Ok
     THEN [result |-> Ok, actors |-> VecPush(self.actors, actor), attempts |-> <<JoinAttempt>>]
     ELSE [result |-> r, actors |-> self.actors, attempts |-> <<JoinAttempt>>]

\* variant: leaving is gated by the join guard
remove_actor_gated(self, actor) ==
  LET r == Attempt(self.join_guard, actor, "Join", self)
      pos == Position(self.actors, actor)
  IN IF r = Ok
     THEN [result |-> Ok,
           actors |-> IF pos # 0 THEN VecRemove(self.actors, pos) ELSE self.actors,
           attempts |-> <<JoinAttempt>>]
     ELSE [result |-> r, actors |-> self.actors, attempts |-> <<JoinAttempt>>]

\* variant: a missing actor falls back to the first index (unwrap_or(0))
remove_actor_unwrap_or_first(self, actor) ==
  LET pos == Position(self.actors, actor)
      at == IF pos # 0 THEN pos ELSE 1
  IN [result |-> Ok,
      actors |-> IF self.actors # <<>> THEN VecRemove(self.actors, at) ELSE self.actors,
      attempts |-> <<>>]

remove_actor(self, actor) ==
  LET pos == Position(self.actors, actor)
  IN [result |-> Ok,
      actors |-> IF pos # 0 THEN VecRemove(self.actors, pos) ELSE self.actors,
      attempts |-> <<>>]

\* variant: a member the receive guard denies fails the whole broadcast
broadcast_strict_receivers(self, sender, message) ==
  [result |-> IF \E i \in 1 .. Len(self.actors) :
                   Attempt(self.receive_guard, self.actors[i], "Receive", self) = AccessDenied
              THEN AccessDenied ELSE Ok,
   actors |-> self.actors,
   attempts |-> [i \in 1 .. Len(self.actors) |-> <<"receive_guard", "Receive">>]]

\* variant: members the receive guard denies are dropped from the caucus
broadcast_drops_denied(self, sender, message) ==
  [result |-> Ok,
   actors |-> SelectSeq(self.actors,
                LAMBDA m : Attempt(self.receive_guard, m, "Receive", self) = Ok),
   attempts |-> [i \in 1 .. Len(self.actors) |-> <<"receive_guard", "Receive">>]]

broadcast(self, sender, message) ==
  [result |-> Ok, actors |-> self.actors, attempts |-> <<>>]

\* ---- state ----------------------------------------------------------------
VARIABLES
  join_guard, send_guard, receive_guard, actors,  \* the fields of Caucus
  call,      \* the last call made: operation, arguments and returned Result
  before,    \* `actors` as it was when the last call was made
  consulted, \* the guard consultations the last call made, in order
  initial,   \* `actors` as constructed
  joined,    \* joined[a]: number of add_actor(a) calls that returned Ok so far
  rejected,  \* rejected[a]: number of add_actor(a) calls that returned Err so far
  calls      \* number of calls made so far

vars == <<join_guard, send_guard, receive_guard, actors, call, before, consulted, initial, joined, rejected, calls>>

NoCall == [op |-> "none", actor |-> 0, message |-> 0, result |-> Ok]

\* the caucus value the methods receive
Self == [join_guard |-> join_guard, send_guard |-> send_guard,
         receive_guard |-> receive_guard, actors |-> actors]

SeqsUpTo(S, n) == UNION { [1 .. k -> S] : k \in 0 .. n }

Init ==
  /\ join_guard \in CaucusGuard
  /\ send_guard \in SlotGuards
  /\ receive_guard \in SlotGuards
  /\ actors \in SeqsUpTo(Actors, MaxInit)
  /\ call = NoCall
  /\ before = actors
  /\ consulted = <<>>
  /\ initial = actors
  /\ joined = [a \in Actors |-> 0]
  /\ rejected = [a \in Actors |-> 0]
  /\ calls = 0

Record(c, out) ==
  /\ calls < MaxCalls
  /\ calls' = calls + 1
  /\ actors' = out.actors
  /\ call' = [c EXCEPT !.result = out.result]
  /\ before' = actors
  /\ consulted' = out.attempts
  /\ UNCHANGED <<join_guard, send_guard, receive_guard, initial>>

AddActor(a) ==
  LET out == add_actor(Self, a) IN
  /\ Record([op |-> "add_actor", actor |-> a, message |-> 0, result |-> Ok], out)
  /\ joined' = IF out.result = Ok THEN [joined EXCEPT ![a] = @ + 1] ELSE joined
  /\ rejected' = IF out.result = Ok THEN rejected ELSE [rejected EXCEPT ![a] = @ + 1]

RemoveActor(a) ==
  LET out == remove_actor(Self, a) IN
  /\ Record([op |-> "remove_actor", actor |-> a, message |-> 0, result |-> Ok], out)
  /\ UNCHANGED <<joined, rejected>>

Broadcast(s, m) ==
  LET out == broadcast(Self, s, m) IN
  /\ Record([op |-> "broadcast", actor |-> s, message |-> m, result |-> Ok], out)
  /\ UNCHANGED <<joined, rejected>>

Next ==
  \/ \E a \in Actors : AddActor(a)
  \/ \E a \in Actors : RemoveActor(a)
  \/ \E s \in Actors, m \in Messages : Broadcast(s, m)

Spec == Init /\ [][Next]_vars

\* ---- vocabulary of the properties -----------------------------------------
Range(v) == { v[i] : i \in 1 .. Len(v) }
Count(a, v) == Cardinality({ i \in 1 .. Len(v) : v[i] = a })

\* the caucus as the last call found it
Pre == [Self EXCEPT !.actors = before]

JoinDecision == Attempt(join_guard, call.actor, "Join", Pre)
SendDecision == Attempt(send_guard, call.actor, "Send", Pre)
ReceiveDecision(member) == Attempt(receive_guard, member, "Receive", Pre)

\* C1: a broadcast whose sender the send guard denies the Send operation
\* returns AccessDenied, whatever the membership and the message.
C1_DeniedSenderIsRefused ==
  (call.op = "broadcast" /\ SendDecision = AccessDenied) => call.result = AccessDenied

\* C2: when the join guard approves, add_actor(A) returns success and the
\* membership is the old one with A appended: one longer, A last, every
\* earlier entry unchanged and in place.
C2_ApprovedJoinAppends ==
  (call.op = "add_actor" /\ JoinDecision = Ok) =>
    /\ call.result = Ok
    /\ Len(actors) = Len(before) + 1
    /\ actors[Len(actors)] = call.actor
    /\ \A i \in 1 .. Len(before) : actors[i] = before[i]

C2_Witness ==
  /\ call.op = "add_actor" /\ JoinDecision = Ok
  /\ Len(before) = 2 /\ before[1] # before[2]
  /\ Len(actors) = 3

\* C3: when the join guard denies, add_actor(A) returns AccessDenied and the
\* membership is exactly what it was before the call, on every repetition.
C3_DeniedJoinChangesNothing ==
  (call.op = "add_actor" /\ JoinDecision = AccessDenied) =>
    /\ call.result = AccessDenied
    /\ Len(actors) = Len(before)
    /\ actors = before

C3_Witness ==
  /\ call.op = "add_actor" /\ JoinDecision = AccessDenied
  /\ call.result = AccessDenied
  /\ calls = 2 /\ rejected[call.actor] = 2
  /\ actors # <<>> /\ actors = before /\ actors = initial

\* C4: every membership entry comes from the initial membership or from an
\* approved add_actor: for each actor A the entries equal to A never outnumber
\* the initial count of A plus the approved add_actor(A) calls.
C4_EntriesAreInitialOrJoined ==
  \A a \in Actors : Count(a, actors) <= Count(a, initial) + joined[a]

C4_Witness ==
  /\ call.op = "add_actor" /\ call.result = AccessDenied
  /\ calls = 2 /\ joined[call.actor] = 1 /\ rejected[call.actor] = 1
  /\ Count(call.actor, actors) = Count(call.actor, initial) + 1

\* C5: when A occurs in the membership, remove_actor(A) removes exactly the
\* first entry equal to A: one entry fewer, the entries before the first A
\* stay, the entries after it (later A's included) shift down by one.
C5_RemovesFirstOccurrence ==
  (call.op = "remove_actor" /\ call.actor \in Range(before)) =>
    /\ Len(actors) = Len(before) - 1
    /\ \E p \in 1 .. Len(before) :
         /\ before[p] = call.actor
         /\ \A j \in 1 .. (p - 1) : before[j] # call.actor /\ actors[j] = before[j]
         /\ \A j \in p .. Len(actors) : actors[j] = before[j + 1]
    /\ Count(call.actor, actors) = Count(call.actor, before) - 1

C5_Witness ==
  /\ call.op = "remove_actor"
  /\ Len(before) = 3 /\ Count(call.actor, before) = 2 /\ before[2] # call.actor
  /\ Len(actors) = 2 /\ actors[1] # call.actor /\ actors[2] = call.actor

\* all three guards deny the actor of the last call every operation
AllGuardsDeny ==
  \A g \in {join_guard, send_guard, receive_guard} : \A o \in Operation :
    Attempt(g, call.actor, o, Pre) = AccessDenied

\* C6: remove_actor consults no guard and always returns success; a present
\* actor is removed even when every guard would deny it.
C6_LeaveIsUngated ==
  call.op = "remove_actor" =>
    /\ call.result = Ok
    /\ call.actor \in Range(before) => Len(actors) = Len(before) - 1

C6_Witness ==
  /\ call.op = "remove_actor" /\ AllGuardsDeny
  /\ call.actor \in Range(before)
  /\ call.result = Ok /\ Len(actors) = Len(before) - 1

\* C7: when A does not occur in the membership (empty or not),
\* remove_actor(A) returns success and leaves the membership as it was.
C7_RemovingAbsentActorIsNoOp ==
  (call.op = "remove_actor" /\ call.actor \notin Range(before)) =>
    call.result = Ok /\ actors = before

C7_Witness ==
  /\ call.op = "remove_actor" /\ call.actor \notin Range(before)
  /\ before # <<>> /\ actors = before /\ call.result = Ok

\* C8: when the send guard approves the sender, broadcast returns success
\* whatever the receive guard decides for the members.
C8_FilteredReceiversDoNotFailBroadcast ==
  (call.op = "broadcast" /\ SendDecision = Ok) => call.result = Ok

C8_Witness ==
  /\ call.op = "broadcast" /\ SendDecision = Ok /\ call.result = Ok
  /\ Len(before) = 2
  /\ ReceiveDecision(before[1]) = AccessDenied
  /\ ReceiveDecision(before[2]) = Ok

\* C9: two add_actor(A) calls in a row that the join guard approves leave two
\* more entries, both equal to A, whether or not A was a member before: when
\* an approved add_actor(A) follows an approved add_actor(A), the membership
\* is the one the first call found with A appended twice.
C9_DuplicateJoinAddsTwoEntries ==
  [][ ( /\ call.op = "add_actor" /\ JoinDecision = Ok
        /\ call'.op = "add_actor" /\ call'.actor = call.actor /\ JoinDecision' = Ok ) =>
      ( /\ call.result = Ok /\ call'.result = Ok
        /\ Len(actors') = Len(before) + 2
        /\ actors'[Len(actors')] = call.actor
        /\ actors'[Len(actors') - 1] = call.actor
        /\ \A i \in 1 .. Len(before) : actors'[i] = before[i] ) ]_vars

C9_Witness ==
  /\ call.op = "add_actor" /\ call.result = Ok
  /\ calls = 2 /\ joined[call.actor] = 2
  /\ call.actor \in Range(initial)
  /\ Count(call.actor, actors) = Count(call.actor, initial) + 2

\* C10: the result and effect of add_actor depend only on the join guard's
\* decision: the call made returns the same Result and leaves the same
\* membership as the same call on the same membership under any send guard,
\* any receive guard and any join guard that decides as this one did.
C10_JoinDependsOnJoinGuardOnly ==
  call.op = "add_actor" =>
    /\ \A sg \in CaucusGuard, rg \in CaucusGuard :
         LET out == add_actor([Pre EXCEPT !.send_guard = sg, !.receive_guard = rg], call.actor)
         IN out.result = call.result /\ out.actors = actors
    /\ \A jg \in CaucusGuard :
         Attempt(jg, call.actor, "Join", Pre) = JoinDecision =>
           LET out == add_actor([Pre EXCEPT !.join_guard = jg], call.actor)
           IN out.result = call.result /\ out.actors = actors

C10_Witness ==
  /\ call.op = "add_actor" /\ call.result = Ok
  /\ \A g \in {send_guard, receive_guard} : \A o \in Operation :
       Attempt(g, call.actor, o, Pre) = AccessDenied
  /\ actors = Append(before, call.actor)

C12_CapacityIsNeverExceeded ==
  (join_guard.kind = "capacity" /\ Len(initial) <= join_guard.limit) =>
    Len(actors) <= join_guard.limit

C12_Witness ==
  /\ join_guard.kind = "capacity" /\ Len(initial) < join_guard.limit
  /\ call.op = "add_actor" /\ call.result = AccessDenied
  /\ \E a \in Actors : joined[a] = 1
  /\ Len(before) = join_guard.limit /\ Len(actors) = join_guard.limit

\* C13: broadcast never changes the caucus: the membership after the call is
\* the membership before it, whatever the sender, the message and the guards.
C13_BroadcastLeavesMembershipAlone ==
  call.op = "broadcast" => actors = before

C13_Witness ==
  /\ call.op = "broadcast" /\ SendDecision = AccessDenied
  /\ Len(before) = 2 /\ before[1] # before[2]
  /\ ReceiveDecision(before[1]) = AccessDenied
  /\ actors = before

\* C14: join then leave is a round trip for a non-member: when A is not in
\* the membership and the join guard approves, add_actor(A) followed by
\* remove_actor(A) leaves the membership the add_actor call found.
C14_JoinThenLeaveRestores ==
  [][ ( /\ call.op = "add_actor" /\ JoinDecision = Ok
        /\ call.actor \notin Range(before)
        /\ call'.op = "remove_actor" /\ call'.actor = call.actor ) =>
      ( /\ call.result = Ok /\ call'.result = Ok
        /\ actors' = before ) ]_vars

C14_Witness ==
  /\ call.op = "remove_actor" /\ call.result = Ok
  /\ calls = 2 /\ joined[call.actor] = 1
  /\ call.actor \notin Range(initial)
  /\ initial # <<>> /\ actors = initial
====
